---- MODULE Spec2Model ----
(***************************************************************************)
(* Model of the LLM tool-use orchestration engine of posterpusher:        *)
(* agent.py (run_agent, execute_tool, _trim_history and its helpers) and   *)
(* the conversation store of config.py as used by app.py / dashboard.py.   *)
(*                                                                         *)
(* Strings are modelled by what the code observes of them: their length    *)
(* and, for tool results, whether json.loads accepts them and as what.     *)
(***************************************************************************)
EXTENDS Integers, Sequences, FiniteSets, TLC

(***************************************************************************)
(* Program constants                                                       *)
(***************************************************************************)
MAX_HISTORY_RESULT_CHARS == 2000
MAX_RESULT_CHARS == 15000
DefaultMaxMessages == 10
DefaultMaxChars == 30000
\* lengths of the literal strings the code builds
CompressedMarkLen == 28
RecordsMarkLen == 34
ShowingMarkLen == 58
EllipsisLen == 3
TruncatedMarkLen == 15
ChartOkLen == 29
SummarizePromptLen == 209
FallbackLen == 52
NoResponseLen == 22
NotAllowedLen == 31
ChartFailedLen == 67
MissingMethodLen == 48
RequestFailedLen == 33
ExecFailedLen == 36

ALLOWED_TOOLS == {"poster_api", "plot_graph"}

(***************************************************************************)
(* Bounds of the model                                                     *)
(***************************************************************************)
MaxRuns == 3
MaxIter == 2
MaxLen == 4
\* sizes of the inputs
ErrMsgLen == 40
ShortLen == 12
LongLen == 16000
HugeLen == 31000
MaxDays == 2
MaxDaily == 2

Min(a, b) == IF a < b THEN a ELSE b

\* len(str(n)) for a non-negative record count
Digits(n) == IF n < 10 THEN 1 ELSE IF n < 100 THEN 2 ELSE IF n < 1000 THEN 3 ELSE 4

(***************************************************************************)
(* Text: a Python str.  kind is what json.loads makes of it ("raw" = not   *)
(* JSON), len its length; for a JSON list n is the number of records and   *)
(* item the length json.dumps gives each record; for a JSON object item is *)
(* the length json.dumps gives the whole object.  what/about say which     *)
(* message of execute_tool the string is ("" = any other text) and which   *)
(* tool name it quotes.                                                    *)
(***************************************************************************)
Text(kind, l, n, item, what, about) ==
    [kind |-> kind, len |-> l, n |-> n, item |-> item, what |-> what, about |-> about]
Raw(l) == Text("raw", l, 0, 0, "", "")
\* a JSON object of length l that json.dumps writes back with length dumped
JsonDictSpaced(l, dumped) == Text("dict", l, 0, dumped, "", "")
\* a JSON object as json.dumps wrote it
JsonDict(l) == JsonDictSpaced(l, l)
\* len(json.dumps(list of n records of serialised length item)): "[" a ", " b "]"
ListLen(n, item) == IF n = 0 THEN 2 ELSE 2 + n * item + 2 * (n - 1)
JsonList(n, item) == Text("list", ListLen(n, item), n, item, "", "")

\* a compaction that does not cut the sample of a list
compress_uncut_sample(result) ==
    IF result.len <= MAX_HISTORY_RESULT_CHARS THEN result
    ELSE IF result.kind = "list"
         THEN Raw(ListLen(Min(result.n, 3), result.item) + RecordsMarkLen + Digits(result.n))
    ELSE IF result.kind = "dict"
         THEN IF result.item > MAX_HISTORY_RESULT_CHARS
              THEN Raw(MAX_HISTORY_RESULT_CHARS + EllipsisLen)
              ELSE JsonDict(result.item)
    ELSE Raw(MAX_HISTORY_RESULT_CHARS + CompressedMarkLen)

\* agent.py _compress_tool_result
_compress_tool_result(result) ==
    IF result.len <= MAX_HISTORY_RESULT_CHARS THEN result
    ELSE IF result.kind = "list"
         THEN LET summary == ListLen(Min(result.n, 3), result.item)
                  cut == Min(summary, MAX_HISTORY_RESULT_CHARS)
              IN  Raw(cut + RecordsMarkLen + Digits(result.n))
    ELSE IF result.kind = "dict"
         THEN IF result.item > MAX_HISTORY_RESULT_CHARS
              THEN Raw(MAX_HISTORY_RESULT_CHARS + EllipsisLen)
              ELSE JsonDict(result.item)
    ELSE Raw(MAX_HISTORY_RESULT_CHARS + CompressedMarkLen)

(***************************************************************************)
(* Messages.  content is either a str (str = TRUE, text = its length) or a *)
(* list of blocks.  A block is a dict (dict = TRUE) when the code built it *)
(* and an SDK object (dict = FALSE) when it is the model's response        *)
(* content stored as received.                                             *)
(***************************************************************************)
NoText == Raw(0)
StrMsg(role, l) == [role |-> role, str |-> TRUE, text |-> l, blocks |-> <<>>]
ListMsg(role, blocks) == [role |-> role, str |-> FALSE, text |-> 0, blocks |-> blocks]
ToolUseBlock(isdict, id, name, inputlen) ==
    [type |-> "tool_use", dict |-> isdict, id |-> id, name |-> name,
     content |-> NoText, input |-> inputlen]
\* a tool_result block that is compacted when it is built
ToolResultBlockCompacted(id, content) ==
    [type |-> "tool_result", dict |-> TRUE, id |-> id, name |-> "",
     content |-> _compress_tool_result(content), input |-> 0]

\* the dict run_agent appends to tool_results
ToolResultBlock(id, content) ==
    [type |-> "tool_result", dict |-> TRUE, id |-> id, name |-> "",
     content |-> content, input |-> 0]
TextBlock(isdict, l) ==
    [type |-> "text", dict |-> isdict, id |-> 0, name |-> "",
     content |-> Raw(l), input |-> 0]

\* the test of _clean_orphaned_messages: a list content with a dict block of type t
HasDictBlock(msg, t) ==
    /\ ~msg.str
    /\ \E i \in 1..Len(msg.blocks) : msg.blocks[i].dict /\ msg.blocks[i].type = t

should_remove(first_msg) ==
    IF first_msg.role = "user" THEN HasDictBlock(first_msg, "tool_result")
    ELSE IF first_msg.role = "assistant" THEN HasDictBlock(first_msg, "tool_use")
    ELSE FALSE

\* a repair that inspects the first message only once
clean_once(messages) ==
    IF messages # <<>> /\ should_remove(Head(messages)) THEN Tail(messages) ELSE messages

\* agent.py _clean_orphaned_messages
RECURSIVE _clean_orphaned_messages(_)
_clean_orphaned_messages(messages) ==
    IF messages = <<>> THEN <<>>
    ELSE IF should_remove(Head(messages)) THEN _clean_orphaned_messages(Tail(messages))
    ELSE messages

compress_block(block) ==
    IF block.dict /\ block.type = "tool_result"
    THEN [block EXCEPT !.content = _compress_tool_result(block.content)]
    ELSE block

\* agent.py _compress_history_results
_compress_history_results(messages) ==
    [i \in 1..Len(messages) |->
        IF messages[i].str THEN messages[i]
        ELSE [messages[i] EXCEPT !.blocks =
                 [j \in 1..Len(messages[i].blocks) |-> compress_block(messages[i].blocks[j])]]]

RECURSIVE SumSeq(_)
SumSeq(s) == IF s = <<>> THEN 0 ELSE Head(s) + SumSeq(Tail(s))

\* one block's share of _estimate_chars: only dict blocks are counted
block_chars(block) ==
    IF ~block.dict THEN 0
    ELSE IF block.type = "tool_result" THEN block.content.len
    ELSE IF block.type = "text" THEN block.content.len
    ELSE block.input

\* agent.py _estimate_chars
_estimate_chars(messages) ==
    SumSeq([i \in 1..Len(messages) |->
        IF messages[i].str THEN messages[i].text
        ELSE SumSeq([j \in 1..Len(messages[i].blocks) |-> block_chars(messages[i].blocks[j])])])

\* a count cut that keeps the oldest messages
FirstN(s, k) == IF k = 0 \/ Len(s) <= k THEN s ELSE SubSeq(s, 1, k)

\* compressed[-max_messages:]; s[-0:] is the whole list
LastN(s, k) == IF k = 0 \/ Len(s) <= k THEN s ELSE SubSeq(s, Len(s) - k + 1, Len(s))

\* a character budget that drops at most one message
trim_chars_once(compressed, max_chars) ==
    IF Len(compressed) > 2 /\ _estimate_chars(compressed) > max_chars
    THEN _clean_orphaned_messages(Tail(compressed))
    ELSE compressed

\* the while loop of _trim_history (character budget)
RECURSIVE trim_chars(_, _)
trim_chars(compressed, max_chars) ==
    IF Len(compressed) > 2 /\ _estimate_chars(compressed) > max_chars
    THEN trim_chars(_clean_orphaned_messages(Tail(compressed)), max_chars)
    ELSE compressed

\* a trim that cuts by count without repairing the cut
trim_history_naive(messages, max_messages, max_chars) ==
    trim_chars(LastN(_compress_history_results(messages), max_messages), max_chars)

\* agent.py _trim_history
_trim_history(messages, max_messages, max_chars) ==
    LET compressed == _compress_history_results(messages)
        counted == IF Len(compressed) > max_messages
                   THEN _clean_orphaned_messages(LastN(compressed, max_messages))
                   ELSE compressed
    IN  trim_chars(counted, max_chars)

(***************************************************************************)
(* Tool dispatcher                                                         *)
(***************************************************************************)
NameLen(name) == IF name = "delete_everything" THEN 17 ELSE 10

\* json.dumps({"error": ...}): a short JSON object
ToolError(what, about, l) == Text("dict", l, 0, l, what, about)

\* what the backend does when it is called: the HTTP GET of poster_api or
\* generate_generic_chart of plot_graph
PosterBackends(failures, datas) ==
    {[status |-> f, data |-> NoText] : f \in failures \cap {"request_error", "bad_response"}}
    \cup {[status |-> "ok", data |-> d] : d \in datas}
ChartBackends(failures) ==
    {[status |-> f, data |-> NoText] : f \in failures \cap {"none", "raise"}}
    \cup {[status |-> "chart", data |-> NoText]}

\* records that fit in MAX_RESULT_CHARS: total_len starts at 2, each adds item + 2
FitCount(n, item) == Min(n, (MAX_RESULT_CHARS - 2) \div (item + 2))

\* agent.py execute_tool, "Limit response size to avoid token bloat"
format_result(data) ==
    IF data.kind = "list" /\ data.len > MAX_RESULT_CHARS
    THEN LET k == FitCount(data.n, data.item)
         IN  Text("raw", ListLen(k, data.item) + ShowingMarkLen + Digits(k) + Digits(data.n), 0, 0, "data", "")
    ELSE IF data.len > MAX_RESULT_CHARS
         THEN Text("raw", MAX_RESULT_CHARS + TruncatedMarkLen, 0, 0, "data", "")
         ELSE [data EXCEPT !.what = "data"]

\* what a call of execute_tool does: the value it returns (a tuple or a str),
\* whether it called the backend, and whether it raised instead of returning
Outcome(istuple, text, called) ==
    [tuple |-> istuple, text |-> text, called |-> called, raises |-> FALSE]

\* a dispatcher without the allow-list check
execute_tool_open(tool_name, input, backend) ==
    IF tool_name = "plot_graph"
    THEN IF backend.status = "chart"
         THEN Outcome(TRUE, Text("raw", ChartOkLen, 0, 0, "chart_ok", ""), TRUE)
         ELSE Outcome(FALSE, ToolError("chart_failed", "", ChartFailedLen), TRUE)
    ELSE IF backend.status = "ok"
    THEN Outcome(FALSE, format_result(backend.data), TRUE)
    ELSE Outcome(FALSE, ToolError("request_failed", "", RequestFailedLen + ErrMsgLen), TRUE)

\* a dispatcher whose try block does not catch the backend's exceptions
execute_tool_uncaught(tool_name, input, backend) ==
    IF tool_name \notin ALLOWED_TOOLS
    THEN Outcome(FALSE, ToolError("not_allowed", tool_name, NotAllowedLen + NameLen(tool_name)), FALSE)
    ELSE IF tool_name = "poster_api" /\ input = 0
    THEN Outcome(FALSE, ToolError("missing_method", "", MissingMethodLen), FALSE)
    ELSE IF backend.status = "chart"
    THEN Outcome(TRUE, Text("raw", ChartOkLen, 0, 0, "chart_ok", ""), TRUE)
    ELSE IF backend.status = "none"
    THEN Outcome(FALSE, ToolError("chart_failed", "", ChartFailedLen), TRUE)
    ELSE IF backend.status = "ok"
    THEN Outcome(FALSE, format_result(backend.data), TRUE)
    ELSE [Outcome(FALSE, NoText, TRUE) EXCEPT !.raises = TRUE]

\* agent.py execute_tool.  input = 0 is a tool input without "method";
\* backend is what the backend call does if the code gets to make it.
execute_tool(tool_name, input, backend) ==
    IF tool_name \notin ALLOWED_TOOLS
    THEN Outcome(FALSE, ToolError("not_allowed", tool_name, NotAllowedLen + NameLen(tool_name)), FALSE)
    ELSE IF tool_name = "plot_graph"
    THEN IF backend.status = "chart"
         THEN Outcome(TRUE, Text("raw", ChartOkLen, 0, 0, "chart_ok", ""), TRUE)
         ELSE IF backend.status = "none"
         THEN Outcome(FALSE, ToolError("chart_failed", "", ChartFailedLen), TRUE)
         ELSE Outcome(FALSE, ToolError("exec_failed", "", ExecFailedLen + ErrMsgLen), TRUE)
    ELSE IF input = 0
    THEN Outcome(FALSE, ToolError("missing_method", "", MissingMethodLen), FALSE)
    ELSE IF backend.status = "request_error"
    THEN Outcome(FALSE, ToolError("request_failed", "", RequestFailedLen + ErrMsgLen), TRUE)
    ELSE IF backend.status = "ok"
    THEN Outcome(FALSE, format_result(backend.data), TRUE)
    ELSE Outcome(FALSE, ToolError("exec_failed", "", ExecFailedLen + ErrMsgLen), TRUE)

(***************************************************************************)
(* State                                                                   *)
(***************************************************************************)
VARIABLES
    agent_conversations, \* config.py: the conversation store, user -> messages
    env,                 \* the collaborators' repertoire, fixed in a behaviour
    pc,                  \* where the request in flight is
    runs,                \* number of runs started
    user,                \* the user of the request in flight
    max_iterations,      \* run_agent: parameter
    messages,            \* run_agent: local message list
    iteration,           \* run_agent: loop counter
    charts,              \* run_agent: collected chart buffers
    response,            \* run_agent: content of the tool_use response in hand
    idx,                 \* run_agent: position of the for loop over response.content
    tool_results,        \* run_agent: tool_result blocks of this turn
    result,              \* run_agent: the returned tuple
    sent,                \* the message list of the latest model call
    tool_calls,          \* model calls of this run made with tools=TOOLS
    plain_calls,         \* model calls of this run made without tools
    backend_calls,       \* backend calls (HTTP GET, chart rendering) of this run
    dispatch_log,        \* what execute_tool returned, call by call, in this run
    call_log,            \* outcome of each model call of this run, in order
    store_before,        \* the store when the request in flight started
    fn_pc, fn_in, fn_out, fn_prev,  \* application of the pure functions to an input
    agent_usage,         \* config.py: user -> date and count (date 0: no entry)
    agent_user_limits,   \* config.py: user -> the keys set and their values
    today,               \* date.today()
    pending,             \* the app.py request that awaits its "Thinking..." reply
    ret,                 \* what the latest handler or config function returned
    recorded             \* user -> calls of record_agent_usage since midnight

runvars == <<pc, runs, user, max_iterations, messages, iteration, charts, response, idx,
             tool_results, result, sent, tool_calls, plain_calls, backend_calls,
             dispatch_log, call_log, store_before>>
fnvars == <<fn_pc, fn_in, fn_out, fn_prev>>
quotavars == <<agent_usage, agent_user_limits, today, pending, ret, recorded>>
vars == <<agent_conversations, env, runvars, fnvars, quotavars>>

Users == {"u1", "u2"}
NoResult == [text |-> "", len |-> 0, history |-> <<>>, charts |-> <<>>]
NoInput == [messages |-> <<>>, max_messages |-> 0, max_chars |-> 0]
NoUsage == [date |-> 0, count |-> 0]
NoLimits == [keys |-> {}, daily_limit |-> 0, max_iterations |-> 0]
NoPending == [on |-> FALSE, user |-> "", max_iterations |-> 0]
NoRet == [op |-> "", user |-> "", key |-> "", ok |-> FALSE, n |-> 0, limit |-> 0]

(***************************************************************************)
(* config.py: limits and daily quota.  The functions are given the dict    *)
(* they work on and give back what they return and the dict they leave.    *)
(***************************************************************************)
AGENT_DEFAULTS == [daily_limit |-> 20, max_iterations |-> 5, history_limit |-> 10]

\* limits = dict(AGENT_DEFAULTS); limits.update(agent_user_limits[user_id])
get_agent_limits(limits, user_id) ==
    [daily_limit |-> IF "daily_limit" \in limits[user_id].keys
                     THEN limits[user_id].daily_limit ELSE AGENT_DEFAULTS.daily_limit,
     max_iterations |-> IF "max_iterations" \in limits[user_id].keys
                        THEN limits[user_id].max_iterations ELSE AGENT_DEFAULTS.max_iterations,
     history_limit |-> AGENT_DEFAULTS.history_limit]

\* a setter that stores a value under any key it knows a default for
set_any_key(limits, user_id, key, value) ==
    [ok |-> TRUE,
     limits |-> IF key = "daily_limit"
                THEN [limits EXCEPT ![user_id].keys = @ \cup {key}, ![user_id].daily_limit = value]
                ELSE [limits EXCEPT ![user_id].keys = @ \cup {key}, ![user_id].max_iterations = value]]

\* config.py set_agent_limit
set_agent_limit(limits, user_id, key, value) ==
    IF key \notin {"daily_limit", "max_iterations"}
    THEN [ok |-> FALSE, limits |-> limits]
    ELSE [ok |-> TRUE,
          limits |-> IF key = "daily_limit"
                     THEN [limits EXCEPT ![user_id].keys = @ \cup {key}, ![user_id].daily_limit = value]
                     ELSE [limits EXCEPT ![user_id].keys = @ \cup {key}, ![user_id].max_iterations = value]]

\* "if user_id not in agent_usage or agent_usage[user_id]['date'] != today"
\* followed by the assignment of a fresh entry
rolled(usage, user_id, day) ==
    IF usage[user_id].date # day
    THEN [usage EXCEPT ![user_id] = [date |-> day, count |-> 0]]
    ELSE usage

\* an answer that reports the difference also when the request is refused
verdict_unclamped(count, daily_limit) ==
    [allowed |-> ~(count >= daily_limit), remaining |-> daily_limit - count]

\* config.py check_agent_rate_limit, the answer: (False, 0) once the count
\* has reached the limit, (True, remaining) otherwise
verdict(count, daily_limit) ==
    IF count >= daily_limit
    THEN [allowed |-> FALSE, remaining |-> 0]
    ELSE [allowed |-> TRUE, remaining |-> daily_limit - count]

\* a check that keeps the count of an earlier day
check_without_rollover(usage, limits, user_id, day) ==
    LET daily_limit == get_agent_limits(limits, user_id).daily_limit
        answer == verdict(usage[user_id].count, daily_limit)
    IN  [usage |-> usage, allowed |-> answer.allowed, remaining |-> answer.remaining]

\* config.py check_agent_rate_limit
check_agent_rate_limit(usage, limits, user_id, day) ==
    LET daily_limit == get_agent_limits(limits, user_id).daily_limit
        fresh == rolled(usage, user_id, day)
        answer == verdict(fresh[user_id].count, daily_limit)
    IN  [usage |-> fresh, allowed |-> answer.allowed, remaining |-> answer.remaining]

\* a record that resets the entry of an earlier day and counts nothing
record_uncounted(usage, user_id, day) == rolled(usage, user_id, day)

\* config.py record_agent_usage
record_agent_usage(usage, user_id, day) ==
    [rolled(usage, user_id, day) EXCEPT ![user_id].count = @ + 1]

\* a usage display that resets the entry of an earlier day, as a check does
usage_with_rollover(usage, limits, user_id, day) ==
    [usage |-> rolled(usage, user_id, day),
     used |-> IF usage[user_id].date # day THEN 0 ELSE usage[user_id].count,
     limit |-> get_agent_limits(limits, user_id).daily_limit]

\* config.py get_agent_usage; usage is the store as the call leaves it
get_agent_usage(usage, limits, user_id, day) ==
    [usage |-> usage,
     used |-> IF usage[user_id].date # day THEN 0 ELSE usage[user_id].count,
     limit |-> get_agent_limits(limits, user_id).daily_limit]

(***************************************************************************)
(* The collaborators' repertoire.  A reply of the model is a sequence of   *)
(* blocks; a tool_use block names a tool and has an input (0: no method).  *)
(***************************************************************************)
Use(name, input) == [type |-> "tool_use", name |-> name, len |-> input]
Say(l) == [type |-> "text", name |-> "", len |-> l]

\* tool_use replies: one call, a call without method, a tool that is not
\* allowed, text followed by two charts, a chart followed by a disallowed tool
AllReplies ==
    {<<Use("poster_api", ShortLen)>>,
     <<Use("poster_api", 0)>>,
     <<Use("delete_everything", ShortLen)>>,
     <<Say(ShortLen), Use("plot_graph", ShortLen), Use("plot_graph", ShortLen)>>,
     <<Use("plot_graph", ShortLen), Use("delete_everything", ShortLen)>>}

\* replies with another stop_reason: no block, one text block, two text
\* blocks, text followed by a tool_use block (stop_reason max_tokens), and
\* a tool_use block alone
AllEnds ==
    {<<>>,
     <<Say(ShortLen)>>,
     <<Say(ShortLen), Say(ShortLen + 1)>>,
     <<Say(ShortLen), Use("poster_api", ShortLen)>>,
     <<Use("poster_api", ShortLen)>>}

AllDatas == {JsonList(2, 40), JsonList(5, 900), JsonList(20, 900), JsonDict(2500)}
AllFailures == {"request_error", "bad_response", "none", "raise"}

RichEnv ==
    [users |-> {"u1"}, runs |-> 1, iters |-> 0..MaxIter, prompts |-> {ShortLen},
     replies |-> AllReplies, ends |-> AllEnds,
     datas |-> {JsonList(2, 40), JsonList(20, 900)}, failures |-> AllFailures,
     targets |-> {"u1"}, keys |-> {"max_iterations"}, dailies |-> {}, days |-> 1,
     telegram |-> FALSE]

StoreEnv ==
    [users |-> {"u1"}, runs |-> MaxRuns, iters |-> 0..MaxIter, prompts |-> {ShortLen, LongLen},
     replies |-> {<<Use("poster_api", ShortLen)>>}, ends |-> {<<Say(ShortLen)>>},
     datas |-> {JsonList(5, 900)}, failures |-> {},
     targets |-> {"u1"}, keys |-> {"max_iterations"}, dailies |-> {}, days |-> 1,
     telegram |-> FALSE]

\* prompts of the dashboard, which does not bound their length
WindowEnv ==
    [users |-> {"u1"}, runs |-> MaxRuns, iters |-> 0..MaxIter, prompts |-> {ShortLen, HugeLen},
     replies |-> {<<Use("poster_api", ShortLen)>>}, ends |-> {<<Say(ShortLen)>>},
     datas |-> {JsonList(5, 900)}, failures |-> {},
     targets |-> {"u1"}, keys |-> {"max_iterations"}, dailies |-> {}, days |-> 1,
     telegram |-> FALSE]

\* the quota of one user: a model that answers in text or fails, days, and
\* overrides of every key for two users; "/agent limit" takes any integer,
\* so that a daily limit may be 0 or negative
QuotaEnv ==
    [users |-> {"u1"}, runs |-> MaxRuns, iters |-> {1}, prompts |-> {ShortLen},
     replies |-> {}, ends |-> {<<Say(ShortLen)>>}, datas |-> {}, failures |-> {},
     targets |-> Users, keys |-> {"daily_limit", "max_iterations", "history_limit"},
     dailies |-> -1..MaxDaily, days |-> MaxDays, telegram |-> FALSE]

\* both front ends, with a daily limit the requests can use up
OverlapEnv ==
    [users |-> Users, runs |-> MaxRuns, iters |-> {1}, prompts |-> {ShortLen},
     replies |-> {}, ends |-> {<<Say(ShortLen)>>}, datas |-> {}, failures |-> {},
     targets |-> Users, keys |-> {"daily_limit", "max_iterations"},
     dailies |-> {MaxDaily}, days |-> MaxDays, telegram |-> TRUE]

\* two users and both front ends
UsersEnv ==
    [users |-> Users, runs |-> MaxRuns, iters |-> {1}, prompts |-> {ShortLen},
     replies |-> {}, ends |-> {<<Say(ShortLen)>>}, datas |-> {}, failures |-> {},
     targets |-> Users, keys |-> {"max_iterations"},
     dailies |-> {}, days |-> MaxDays, telegram |-> TRUE]

Backends(block) ==
    IF block.name = "plot_graph" THEN ChartBackends(env.failures)
    ELSE PosterBackends(env.failures, env.datas)

\* response.content as the SDK returns it: objects, not dicts; the ids the
\* model gives its tool_use blocks are unique
Content(reply, iter) ==
    [i \in 1..Len(reply) |->
        IF reply[i].type = "tool_use"
        THEN ToolUseBlock(FALSE, runs * 100 + iter * 10 + i, reply[i].name, reply[i].len)
        ELSE TextBlock(FALSE, reply[i].len)]

\* a concatenation that keeps the first block only
first_block_text(reply) ==
    IF reply # <<>> /\ reply[1].type = "text" THEN reply[1].len ELSE 0

\* final_text / summary_text: the concatenation of the blocks that have a
\* text attribute
TextLen(reply) ==
    SumSeq([i \in 1..Len(reply) |-> IF reply[i].type = "text" THEN reply[i].len ELSE 0])

Returned(what, l, msgs, ch) ==
    [text |-> what, len |-> l,
     history |-> _trim_history(msgs, DefaultMaxMessages, DefaultMaxChars), charts |-> ch]

IdleRun ==
    /\ pc = "idle" /\ user = "" /\ max_iterations = 0 /\ messages = <<>> /\ iteration = 0
    /\ charts = <<>> /\ response = <<>> /\ idx = 0 /\ tool_results = <<>>
    /\ result = NoResult /\ sent = <<>> /\ tool_calls = 0 /\ plain_calls = 0
    /\ backend_calls = 0 /\ dispatch_log = <<>> /\ call_log = <<>>
    /\ store_before = agent_conversations

IdleFn == fn_pc = "off" /\ fn_in = NoInput /\ fn_out = <<>> /\ fn_prev = <<>>

\* config.py at import: no usage, no override; no request is suspended
IdleQuota ==
    /\ agent_usage = [u \in Users |-> NoUsage]
    /\ agent_user_limits = [u \in Users |-> NoLimits]
    /\ today = 1
    /\ pending = NoPending
    /\ ret = NoRet
    /\ recorded = [u \in Users |-> 0]

InitEnv(e) ==
    /\ env = e
    /\ agent_conversations = [u \in Users |-> <<>>]
    /\ runs = 0
    /\ IdleRun
    /\ IdleFn
    /\ IdleQuota

(***************************************************************************)
(* The request handlers (app.py agent, dashboard.py api_chat) and          *)
(* run_agent, step by step.  run_agent never awaits, so one request is in  *)
(* flight at a time.                                                       *)
(***************************************************************************)
\* run_agent: messages = _clean_orphaned_messages(list(history)) if history else []
StartMessages(history, prompt) ==
    Append(IF history # <<>> THEN _clean_orphaned_messages(history) ELSE <<>>,
           StrMsg("user", prompt))

\* the return value of check_agent_rate_limit, as ret keeps it
Checked(user_id, chk) ==
    [op |-> "check", user |-> user_id, key |-> "", ok |-> chk.allowed, n |-> chk.remaining, limit |-> 0]

\* a request that starts from an empty history whatever is stored
EnterRunFresh(user_id, prompt, limit) ==
    /\ user' = user_id
    /\ max_iterations' = limit
    /\ messages' = StartMessages(<<>>, prompt)
    /\ pc' = "loop"
    /\ store_before' = agent_conversations
    /\ UNCHANGED <<agent_conversations, env, iteration, charts, response, idx, tool_results,
                   result, sent, tool_calls, plain_calls, backend_calls, dispatch_log,
                   call_log, fnvars>>

\* the locals of a request that enters run_agent
EnterRun(user_id, prompt, limit) ==
    /\ user' = user_id
    /\ max_iterations' = limit
    /\ messages' = StartMessages(agent_conversations[user_id], prompt)
    /\ pc' = "loop"
    /\ store_before' = agent_conversations
    /\ UNCHANGED <<agent_conversations, env, iteration, charts, response, idx, tool_results,
                   result, sent, tool_calls, plain_calls, backend_calls, dispatch_log,
                   call_log, fnvars>>

\* dashboard.py api_chat up to the call of run_agent, which it reaches
\* without awaiting: the check, the 429 answer or the record, the limits,
\* the history.  Runs of more than MaxIter iterations are left out.
StartRun ==
    /\ pc = "idle" /\ runs < env.runs
    /\ \E u \in env.users, p \in env.prompts :
        LET chk == check_agent_rate_limit(agent_usage, agent_user_limits, u, today)
            user_limits == get_agent_limits(agent_user_limits, u)
        IN  /\ ret' = Checked(u, chk)
            /\ IF chk.allowed
               THEN /\ user_limits.max_iterations \in env.iters
                    /\ agent_usage' = record_agent_usage(chk.usage, u, today)
                    /\ recorded' = [recorded EXCEPT ![u] = @ + 1]
                    /\ runs' = runs + 1
                    /\ EnterRun(u, p, user_limits.max_iterations)
               ELSE /\ agent_usage' = chk.usage
                    /\ UNCHANGED <<agent_conversations, env, runvars, fnvars, recorded>>
    /\ UNCHANGED <<agent_user_limits, today, pending>>

\* a bot request that is recorded without looking at the answer of the check
AdmitUnchecked ==
    /\ pc = "idle" /\ runs < env.runs
    /\ env.telegram /\ ~pending.on
    /\ \E u \in env.users :
        LET chk == check_agent_rate_limit(agent_usage, agent_user_limits, u, today)
            user_limits == get_agent_limits(agent_user_limits, u)
        IN  /\ user_limits.max_iterations \in env.iters
            /\ ret' = Checked(u, chk)
            /\ agent_usage' = record_agent_usage(chk.usage, u, today)
            /\ recorded' = [recorded EXCEPT ![u] = @ + 1]
            /\ pending' = [on |-> TRUE, user |-> u, max_iterations |-> user_limits.max_iterations]
    /\ runs' = runs + 1
    /\ UNCHANGED <<agent_conversations, env, pc, user, max_iterations, messages, iteration,
                   charts, response, idx, tool_results, result, sent, tool_calls, plain_calls,
                   backend_calls, dispatch_log, call_log, store_before, fnvars,
                   agent_user_limits, today>>

\* app.py agent with a question, up to "await reply_text(Thinking...)":
\* the limits, the check, the record; a refused request is Usage
Admit ==
    /\ pc = "idle" /\ runs < env.runs
    /\ env.telegram /\ ~pending.on
    /\ \E u \in env.users :
        LET chk == check_agent_rate_limit(agent_usage, agent_user_limits, u, today)
            user_limits == get_agent_limits(agent_user_limits, u)
        IN  /\ chk.allowed
            /\ user_limits.max_iterations \in env.iters
            /\ ret' = Checked(u, chk)
            /\ agent_usage' = record_agent_usage(chk.usage, u, today)
            /\ recorded' = [recorded EXCEPT ![u] = @ + 1]
            /\ pending' = [on |-> TRUE, user |-> u, max_iterations |-> user_limits.max_iterations]
    /\ runs' = runs + 1
    /\ UNCHANGED <<agent_conversations, env, pc, user, max_iterations, messages, iteration,
                   charts, response, idx, tool_results, result, sent, tool_calls, plain_calls,
                   backend_calls, dispatch_log, call_log, store_before, fnvars,
                   agent_user_limits, today>>

\* app.py agent after the await: the history is read and run_agent called
Resume ==
    /\ pc = "idle" /\ pending.on
    /\ \E p \in env.prompts : EnterRun(pending.user, p, pending.max_iterations)
    /\ pending' = NoPending
    /\ UNCHANGED <<runs, agent_usage, agent_user_limits, today, ret, recorded>>

\* app.py agent without a question, or refused: the check and its answer
Usage ==
    /\ pc = "idle" /\ ~pending.on
    /\ \E u \in env.users :
        LET chk == check_agent_rate_limit(agent_usage, agent_user_limits, u, today)
        IN  /\ ret' = Checked(u, chk)
            /\ agent_usage' = chk.usage
    /\ UNCHANGED <<agent_conversations, env, runvars, fnvars, agent_user_limits, today, pending,
                   recorded>>

\* dashboard.py page_chat: the chat page shows the usage of its user
page_chat ==
    /\ pc = "idle"
    /\ \E u \in env.users :
        LET got == get_agent_usage(agent_usage, agent_user_limits, u, today)
        IN  /\ agent_usage' = got.usage
            /\ ret' = [op |-> "usage", user |-> u, key |-> "", ok |-> TRUE,
                       n |-> got.used, limit |-> got.limit]
    /\ UNCHANGED <<agent_conversations, env, runvars, fnvars, agent_user_limits, today, pending,
                   recorded>>

\* the values "/agent limit" is given for a key
ValuesOf(key) ==
    IF key = "max_iterations" THEN env.iters
    ELSE IF key = "daily_limit" THEN env.dailies
    ELSE env.iters \cup env.dailies

\* app.py agent, "/agent limit <user_id> <key> <value>"
SetLimit ==
    /\ pc = "idle" /\ ~pending.on
    /\ \E u \in env.targets, key \in env.keys :
        \E value \in ValuesOf(key) :
            LET set == set_agent_limit(agent_user_limits, u, key, value)
            IN  /\ agent_user_limits' = set.limits
                /\ ret' = [op |-> "set_limit", user |-> u, key |-> key, ok |-> set.ok, n |-> value, limit |-> 0]
    /\ UNCHANGED <<agent_conversations, env, runvars, fnvars, agent_usage, today, pending,
                   recorded>>

\* midnight
NextDay ==
    /\ pc = "idle" /\ today < env.days
    /\ today' = today + 1
    /\ ret' = NoRet
    /\ recorded' = [u \in Users |-> 0]
    /\ UNCHANGED <<agent_conversations, env, runvars, fnvars, agent_usage, agent_user_limits,
                   pending>>

\* a loop that tests "iteration <= max_iterations"
LoopCallOffByOne(outcome) ==
    /\ pc = "loop" /\ iteration <= max_iterations
    /\ iteration' = iteration + 1
    /\ sent' = messages
    /\ tool_calls' = tool_calls + 1
    /\ call_log' = Append(call_log, outcome)

\* the part of every model call in the while loop
LoopCall(outcome) ==
    /\ pc = "loop" /\ iteration < max_iterations
    /\ iteration' = iteration + 1
    /\ sent' = messages
    /\ tool_calls' = tool_calls + 1
    /\ call_log' = Append(call_log, outcome)

\* client.messages.create raises
ModelCallFails ==
    /\ LoopCall("error")
    /\ pc' = "raised"
    /\ UNCHANGED <<agent_conversations, env, runs, user, max_iterations, messages, charts,
                   response, idx, tool_results, result, plain_calls, backend_calls,
                   dispatch_log, store_before, fnvars, quotavars>>

\* stop_reason == "tool_use"
ToolUseReply ==
    /\ LoopCall("tool_use")
    /\ \E r \in env.replies : response' = Content(r, iteration + 1)
    /\ idx' = 1
    /\ tool_results' = <<>>
    /\ pc' = "dispatch"
    /\ UNCHANGED <<agent_conversations, env, runs, user, max_iterations, messages, charts,
                   result, plain_calls, backend_calls, dispatch_log,
                   store_before, fnvars, quotavars>>

\* any other stop_reason: the DONE path
EndReply ==
    /\ LoopCall("end")
    /\ \E e \in env.ends :
        LET final_text == TextLen(e)
            msgs == Append(messages, StrMsg("assistant", final_text))
        IN  /\ response' = Content(e, iteration + 1)
            /\ messages' = msgs
            /\ result' = IF final_text > 0
                         THEN Returned("final", final_text, msgs, charts)
                         ELSE Returned("no_response", NoResponseLen, msgs, charts)
    /\ pc' = "returned"
    /\ UNCHANGED <<agent_conversations, env, runs, user, max_iterations, charts,
                   idx, tool_results, plain_calls, backend_calls, dispatch_log,
                   store_before, fnvars, quotavars>>

\* a collection that puts the newest chart first
collect_front(chartlist, tool_result, id) ==
    IF tool_result.tuple THEN <<id>> \o chartlist ELSE chartlist

\* charts.append(chart_buf) when execute_tool returned a tuple
collect(chartlist, tool_result, id) ==
    IF tool_result.tuple THEN Append(chartlist, id) ELSE chartlist

\* one pass of "for block in response.content"; nothing in run_agent catches
\* an exception of execute_tool
Dispatch ==
    /\ pc = "dispatch" /\ idx <= Len(response)
    /\ LET block == response[idx] IN
        IF block.type = "tool_use"
        THEN \E b \in Backends(block) :
              LET tool_result == execute_tool(block.name, block.input, b) IN
              /\ backend_calls' = IF tool_result.called THEN backend_calls + 1 ELSE backend_calls
              /\ dispatch_log' = Append(dispatch_log,
                                        [id |-> block.id, name |-> block.name,
                                         status |-> IF tool_result.called THEN b.status ELSE "",
                                         text |-> tool_result.text, at |-> iteration])
              /\ IF tool_result.raises
                 THEN pc' = "raised" /\ UNCHANGED <<charts, tool_results>>
                 ELSE /\ charts' = collect(charts, tool_result, block.id)
                      /\ tool_results' = Append(tool_results,
                                                ToolResultBlock(block.id, tool_result.text))
                      /\ pc' = pc
        ELSE UNCHANGED <<pc, charts, tool_results, backend_calls, dispatch_log>>
    /\ idx' = idx + 1
    /\ UNCHANGED <<agent_conversations, env, runs, user, max_iterations, messages,
                   iteration, response, result, sent, tool_calls, plain_calls, call_log,
                   store_before, fnvars, quotavars>>

\* a turn that appends the tool results before the assistant message
EndTurnResultsFirst ==
    /\ pc = "dispatch" /\ idx > Len(response)
    /\ messages' = messages \o <<ListMsg("user", tool_results), ListMsg("assistant", response)>>
    /\ pc' = "loop"
    /\ response' = <<>>
    /\ idx' = 0
    /\ tool_results' = <<>>
    /\ UNCHANGED <<agent_conversations, env, runs, user, max_iterations, iteration, charts,
                   result, sent, tool_calls, plain_calls, backend_calls, dispatch_log,
                   call_log, store_before, fnvars, quotavars>>

\* after the for loop: the two appends of the tool-use turn
EndTurn ==
    /\ pc = "dispatch" /\ idx > Len(response)
    /\ messages' = messages \o <<ListMsg("assistant", response), ListMsg("user", tool_results)>>
    /\ pc' = "loop"
    /\ response' = <<>>
    /\ idx' = 0
    /\ tool_results' = <<>>
    /\ UNCHANGED <<agent_conversations, env, runs, user, max_iterations, iteration, charts,
                   result, sent, tool_calls, plain_calls, backend_calls, dispatch_log,
                   call_log, store_before, fnvars, quotavars>>

\* a summarization call that sends the messages without the request to
\* summarize
SummaryCallUnasked(outcome) ==
    /\ pc = "loop" /\ iteration >= max_iterations
    /\ sent' = messages
    /\ plain_calls' = plain_calls + 1
    /\ call_log' = Append(call_log, outcome)

\* the while loop is left: the summarization call, made without tools, so
\* that its reply holds no tool_use block
SummaryCall(outcome) ==
    /\ pc = "loop" /\ iteration >= max_iterations
    /\ sent' = Append(messages, StrMsg("user", SummarizePromptLen))
    /\ plain_calls' = plain_calls + 1
    /\ call_log' = Append(call_log, outcome)

SummaryReply ==
    /\ SummaryCall("end")
    /\ pc' = "returned"
    /\ \E e \in {x \in env.ends : \A i \in 1..Len(x) : x[i].type = "text"} :
        LET summary_text == TextLen(e)
            asked == Append(messages, StrMsg("user", SummarizePromptLen))
            msgs == Append(asked, StrMsg("assistant", summary_text))
        IN  /\ response' = Content(e, iteration + 1)
            /\ IF summary_text > 0
               THEN /\ messages' = msgs
                    /\ result' = Returned("summary", summary_text, msgs, charts)
               ELSE /\ messages' = asked
                    /\ result' = Returned("fallback", FallbackLen, asked, charts)
    /\ UNCHANGED <<agent_conversations, env, runs, user, max_iterations, iteration, charts,
                   idx, tool_results, tool_calls, backend_calls, dispatch_log, store_before, fnvars, quotavars>>

\* a summarization call whose failure is not caught
SummaryFailsRaises ==
    /\ SummaryCall("error")
    /\ pc' = "raised"
    /\ UNCHANGED <<agent_conversations, env, runs, user, max_iterations, messages, iteration,
                   charts, response, idx, tool_results, result, tool_calls, backend_calls,
                   dispatch_log, store_before, fnvars, quotavars>>

\* the summarization call raises: except Exception: pass
SummaryFails ==
    /\ SummaryCall("error")
    /\ pc' = "returned"
    /\ LET asked == Append(messages, StrMsg("user", SummarizePromptLen)) IN
        /\ messages' = asked
        /\ result' = Returned("fallback", FallbackLen, asked, charts)
    /\ UNCHANGED <<agent_conversations, env, runs, user, max_iterations, iteration, charts,
                   response, idx, tool_results, tool_calls, backend_calls, dispatch_log, store_before, fnvars, quotavars>>

\* the locals of the request are gone
ResetRun ==
    /\ pc' = "idle" /\ user' = "" /\ max_iterations' = 0 /\ messages' = <<>> /\ iteration' = 0
    /\ charts' = <<>> /\ response' = <<>> /\ idx' = 0 /\ tool_results' = <<>>
    /\ result' = NoResult /\ sent' = <<>> /\ tool_calls' = 0 /\ plain_calls' = 0
    /\ backend_calls' = 0 /\ dispatch_log' = <<>> /\ call_log' = <<>>
    /\ store_before' = agent_conversations'

\* the caller: agent_conversations[user_id] = updated_history
WriteBack ==
    /\ pc = "returned"
    /\ agent_conversations' = [agent_conversations EXCEPT ![user] = result.history]
    /\ ResetRun
    /\ ret' = [op |-> "reply", user |-> user, key |-> "", ok |-> TRUE, n |-> 0, limit |-> 0]
    /\ UNCHANGED <<env, runs, fnvars, agent_usage, agent_user_limits, today, pending, recorded>>

\* an error handler that keeps what the failed run had collected
HandleErrorSavesPartial ==
    /\ pc = "raised"
    /\ agent_conversations' = [agent_conversations EXCEPT ![user] = messages]
    /\ ResetRun
    /\ ret' = [op |-> "error", user |-> user, key |-> "", ok |-> FALSE, n |-> 0, limit |-> 0]
    /\ UNCHANGED <<env, runs, fnvars, agent_usage, agent_user_limits, today, pending, recorded>>

\* the caller: except Exception as e
HandleError ==
    /\ pc = "raised"
    /\ UNCHANGED agent_conversations
    /\ ResetRun
    /\ ret' = [op |-> "error", user |-> user, key |-> "", ok |-> FALSE, n |-> 0, limit |-> 0]
    /\ UNCHANGED <<env, runs, fnvars, agent_usage, agent_user_limits, today, pending, recorded>>

\* a clear that also forgets what the user has used today
ClearAndForgive ==
    /\ pc = "idle"
    /\ \E u \in env.users :
        /\ agent_conversations[u] # <<>>
        /\ agent_conversations' = [agent_conversations EXCEPT ![u] = <<>>]
        /\ agent_usage' = [agent_usage EXCEPT ![u] = [date |-> 0, count |-> 0]]
        /\ ret' = [op |-> "clear", user |-> u, key |-> "", ok |-> TRUE, n |-> 0, limit |-> 0]
    /\ store_before' = agent_conversations'
    /\ UNCHANGED <<env, pc, runs, user, max_iterations, messages, iteration, charts, response,
                   idx, tool_results, result, sent, tool_calls, plain_calls, backend_calls,
                   dispatch_log, call_log, fnvars, agent_user_limits, today,
                   pending, recorded>>

\* a clear that empties the whole store
ClearEveryConversation ==
    /\ pc = "idle"
    /\ \E u \in env.users :
        /\ agent_conversations[u] # <<>>
        /\ agent_conversations' = [v \in Users |-> <<>>]
        /\ ret' = [op |-> "clear", user |-> u, key |-> "", ok |-> TRUE, n |-> 0, limit |-> 0]
    /\ store_before' = agent_conversations'
    /\ UNCHANGED <<env, pc, runs, user, max_iterations, messages, iteration, charts, response,
                   idx, tool_results, result, sent, tool_calls, plain_calls, backend_calls,
                   dispatch_log, call_log, fnvars, agent_usage, agent_user_limits, today,
                   pending, recorded>>

\* "/agent clear" and POST /api/chat/clear
ClearConversation ==
    /\ pc = "idle"
    /\ \E u \in env.users :
        /\ agent_conversations[u] # <<>>
        /\ agent_conversations' = [agent_conversations EXCEPT ![u] = <<>>]
        /\ ret' = [op |-> "clear", user |-> u, key |-> "", ok |-> TRUE, n |-> 0, limit |-> 0]
    /\ store_before' = agent_conversations'
    /\ UNCHANGED <<env, pc, runs, user, max_iterations, messages, iteration, charts, response,
                   idx, tool_results, result, sent, tool_calls, plain_calls, backend_calls,
                   dispatch_log, call_log, fnvars, agent_usage, agent_user_limits, today,
                   pending, recorded>>

Next ==
    \/ SetLimit
    \/ StartRun
    \/ ModelCallFails
    \/ ToolUseReply
    \/ EndReply
    \/ Dispatch
    \/ EndTurn
    \/ SummaryReply
    \/ SummaryFails
    \/ WriteBack
    \/ HandleError
    \/ ClearConversation

Init == InitEnv(StoreEnv)
Spec == Init /\ [][Next]_vars

\* the dashboard, the limits and the clock, with a model that never asks
\* for a tool
NextQuota ==
    \/ SetLimit
    \/ StartRun
    \/ Usage
    \/ NextDay
    \/ ModelCallFails
    \/ EndReply
    \/ WriteBack
    \/ HandleError
    \/ ClearConversation
InitQuota == InitEnv(QuotaEnv)
SpecQuota == InitQuota /\ [][NextQuota]_vars

\* both front ends
NextUsers == NextQuota \/ Admit \/ Resume
InitUsers == InitEnv(UsersEnv)
SpecUsers == InitUsers /\ [][NextUsers]_vars

\* users whose bot request is suspended while the web chat serves them
NextOverlap == NextUsers \/ page_chat
InitOverlap == InitEnv(OverlapEnv)
SpecOverlap == InitOverlap /\ [][NextOverlap]_vars

InitRun == InitEnv(RichEnv)
SpecRun == InitRun /\ [][Next]_vars

(***************************************************************************)
(* The pure functions applied to arbitrary message sequences               *)
(***************************************************************************)
\* the kinds of message _clean_orphaned_messages tells apart, as hand-built
\* records and as run_agent stores them
InitWindow == InitEnv(WindowEnv)
SpecWindow == InitWindow /\ [][Next]_vars

SomeMessages ==
    {StrMsg("user", ShortLen),
     StrMsg("assistant", ShortLen),
     ListMsg("user", <<ToolResultBlock(1, JsonList(5, 900))>>),
     ListMsg("assistant", <<ToolUseBlock(TRUE, 1, "poster_api", ShortLen)>>),
     ListMsg("assistant", <<ToolUseBlock(FALSE, 1, "poster_api", ShortLen)>>),
     ListMsg("user", <<TextBlock(TRUE, ShortLen)>>)}

SomeSequences == UNION {[1..k -> SomeMessages] : k \in 0..MaxLen}

InitFn ==
    /\ env = StoreEnv
    /\ agent_conversations = [u \in Users |-> <<>>]
    /\ runs = 0
    /\ IdleRun
    /\ IdleQuota
    /\ fn_pc = "in"
    /\ fn_in \in [messages : SomeSequences,
                  max_messages : {MaxLen - 1, DefaultMaxMessages},
                  max_chars : {0, ShortLen * 3, DefaultMaxChars}]
    /\ fn_out = <<>>
    /\ fn_prev = <<>>

\* repair(H)
ApplyClean ==
    /\ fn_pc = "in"
    /\ fn_out' = _clean_orphaned_messages(fn_in.messages)
    /\ fn_pc' = "cleaned"
    /\ UNCHANGED <<agent_conversations, env, runvars, quotavars, fn_in, fn_prev>>

\* repair(repair(H))
ApplyCleanAgain ==
    /\ fn_pc = "cleaned"
    /\ fn_prev' = fn_out
    /\ fn_out' = _clean_orphaned_messages(fn_out)
    /\ fn_pc' = "cleaned_twice"
    /\ UNCHANGED <<agent_conversations, env, runvars, quotavars, fn_in>>

\* trim(H, max_messages, max_chars)
ApplyTrim ==
    /\ fn_pc = "in"
    /\ fn_out' = _trim_history(fn_in.messages, fn_in.max_messages, fn_in.max_chars)
    /\ fn_pc' = "trimmed"
    /\ UNCHANGED <<agent_conversations, env, runvars, quotavars, fn_in, fn_prev>>

NextFn == ApplyClean \/ ApplyCleanAgain \/ ApplyTrim
SpecFn == InitFn /\ [][NextFn]_vars

(***************************************************************************)
(* The compaction of one tool result, on bounded inputs: unparseable text, *)
(* JSON scalars, JSON arrays and JSON objects, around the limit.           *)
(***************************************************************************)
SomeLens == {0, ShortLen, MAX_HISTORY_RESULT_CHARS - 1, MAX_HISTORY_RESULT_CHARS,
             MAX_HISTORY_RESULT_CHARS + 1, MAX_HISTORY_RESULT_CHARS + CompressedMarkLen,
             MAX_HISTORY_RESULT_CHARS + CompressedMarkLen + 1, LongLen}

SomeTexts ==
    {Raw(l) : l \in SomeLens}
    \cup {Text("scalar", l, 0, 0, "", "") : l \in SomeLens \ {0}}
    \cup {JsonList(n, item) : n \in {0, 1, 3, 5, 50, 1000}, item \in {2, 40, 900, LongLen}}
    \cup {Text("list", l, 0, 0, "", "") : l \in SomeLens \ {0}}
    \cup {JsonDictSpaced(l, dumped) : l \in SomeLens \ {0}, dumped \in SomeLens \ {0}}

InitText ==
    /\ env = StoreEnv
    /\ agent_conversations = [u \in Users |-> <<>>]
    /\ runs = 0
    /\ IdleRun
    /\ IdleQuota
    /\ fn_pc = "in"
    /\ \E t \in SomeTexts :
          fn_in = [messages |-> <<ListMsg("user", <<ToolResultBlock(1, t)>>)>>,
                   max_messages |-> DefaultMaxMessages,
                   max_chars |-> DefaultMaxChars]
    /\ fn_out = <<>>
    /\ fn_prev = <<>>

\* compact(s)
ApplyCompact ==
    /\ fn_pc = "in"
    /\ fn_out' = _compress_history_results(fn_in.messages)
    /\ fn_pc' = "compacted"
    /\ UNCHANGED <<agent_conversations, env, runvars, quotavars, fn_in, fn_prev>>

\* compact(compact(s))
ApplyCompactAgain ==
    /\ fn_pc = "compacted"
    /\ fn_prev' = fn_out
    /\ fn_out' = _compress_history_results(fn_out)
    /\ fn_pc' = "compacted_twice"
    /\ UNCHANGED <<agent_conversations, env, runvars, quotavars, fn_in>>

NextText == ApplyCompact \/ ApplyCompactAgain
SpecText == InitText /\ [][NextText]_vars

(***************************************************************************)
(* Properties                                                              *)
(***************************************************************************)
Last(q) == q[Len(q)]
InFlight == pc \in {"loop", "dispatch"}
AllToolUse == \A i \in 1..tool_calls : call_log[i] = "tool_use"

\* the tool_result block of a dispatch is where run_agent puts it: in
\* tool_results while its turn is being processed, in messages afterwards
ResultRecorded(e) ==
    IF pc = "dispatch" /\ e.at = iteration
    THEN \E j \in 1..Len(tool_results) :
            tool_results[j].id = e.id /\ tool_results[j].content = e.text
    ELSE \E i \in 1..Len(messages) : \E j \in 1..Len(messages[i].blocks) :
            /\ messages[i].role = "user"
            /\ messages[i].blocks[j].type = "tool_result"
            /\ messages[i].blocks[j].id = e.id
            /\ messages[i].blocks[j].content = e.text

\* only a failed model call of the loop makes run_agent raise
RaisedByModelOnly == pc = "raised" => (call_log # <<>> /\ Last(call_log) = "error")

\* C1: with max_iterations = N a run makes at most N model calls with tools,
\* at most one without tools, after which it has returned; a run whose
\* replies were all tool_use returns after exactly N + 1 calls
LoopTermination ==
    /\ tool_calls <= max_iterations
    /\ plain_calls <= 1
    /\ tool_calls + plain_calls <= max_iterations + 1
    /\ Len(call_log) = tool_calls + plain_calls
    /\ (plain_calls = 1 => pc = "returned")
    /\ (pc = "returned" /\ AllToolUse => tool_calls = max_iterations /\ plain_calls = 1)

LoopExhausted ==
    /\ pc = "returned" /\ max_iterations = MaxIter /\ MaxIter > 0
    /\ AllToolUse /\ tool_calls = MaxIter /\ plain_calls = 1

\* invariant I1 of a message list
Paired(msgs) ==
    \A i \in 1..Len(msgs) : \A j \in 1..Len(msgs[i].blocks) :
        msgs[i].blocks[j].type = "tool_result" =>
            /\ i > 1
            /\ msgs[i - 1].role = "assistant"
            /\ \E k \in 1..Len(msgs[i - 1].blocks) :
                  /\ msgs[i - 1].blocks[k].type = "tool_use"
                  /\ msgs[i - 1].blocks[k].id = msgs[i].blocks[j].id

HasToolResult(msgs) ==
    \E i \in 1..Len(msgs) : \E j \in 1..Len(msgs[i].blocks) :
        msgs[i].blocks[j].type = "tool_result"

\* C2: every stored history, every history a run returns and every message
\* list sent to the model satisfies the pairing invariant I1
PairingHolds ==
    /\ \A u \in Users : Paired(agent_conversations[u])
    /\ Paired(sent)
    /\ (pc = "returned" => Paired(result.history))

\* a returned history that was cut at the front, where the last message cut
\* off is a tool_result message the repair removed, and that still holds a pair
PairingAfterCut ==
    /\ pc = "returned"
    /\ Len(result.history) < Len(messages)
    /\ HasToolResult(<<messages[Len(messages) - Len(result.history)]>>)
    /\ HasToolResult(result.history)

\* C3: a second repair of a repaired sequence changes nothing
CleanIdempotent == fn_pc = "cleaned_twice" => fn_out = fn_prev

CleanedTwice ==
    /\ fn_pc = "cleaned_twice"
    /\ fn_out # <<>>
    /\ Len(fn_out) + 2 <= Len(fn_in.messages)

TrimKeepsTwo ==
    fn_pc = "trimmed" /\ Len(fn_in.messages) >= 2 => Len(fn_out) >= 2

\* C6: a failed model call of the loop makes run_agent raise; while a run is
\* in flight and after it raised, the store is what it was when the request
\* started, and handling the error leaves it so
FailedRunLeavesStore ==
    [][/\ (InFlight \/ pc = "raised") =>
            /\ agent_conversations = store_before
            /\ agent_conversations' = store_before
       /\ (InFlight /\ plain_calls' = 0 /\ call_log' # call_log /\ Last(call_log') = "error")
            => pc' = "raised"]_vars

\* a run that failed after a tool turn, for a user with a stored conversation
FailedAfterToolTurn ==
    /\ pc = "raised"
    /\ store_before[user] # <<>>
    /\ Len(messages) > Len(store_before[user]) + 1

\* C7: when the summarization call fails, run_agent returns the fallback
\* text, the trimmed history and the charts collected so far
SummaryFailureFallsBack ==
    (plain_calls = 1 /\ Last(call_log) = "error") =>
        /\ pc = "returned"
        /\ result.text = "fallback" /\ result.len = FallbackLen
        /\ messages = sent
        /\ result.history = _trim_history(sent, DefaultMaxMessages, DefaultMaxChars)
        /\ result.charts = charts

SummaryFailedWithCharts ==
    /\ pc = "returned" /\ plain_calls = 1 /\ Last(call_log) = "error"
    /\ tool_calls = MaxIter
    /\ result.charts # <<>>

\* C8: a tool that is not allowed gets an error text naming it, without
\* backend call and without artifact; the text is the ToolResult of its
\* ToolUse; the run does not raise and stays within max_iterations
NotAllowedFailsClosed ==
    /\ \A i \in 1..Len(dispatch_log) :
          LET e == dispatch_log[i] IN
          e.name \notin ALLOWED_TOOLS =>
              /\ e.status = ""
              /\ e.text.what = "not_allowed" /\ e.text.about = e.name
              /\ \A c \in 1..Len(charts) : charts[c] # e.id
              /\ ResultRecorded(e)
    /\ RaisedByModelOnly
    /\ iteration <= max_iterations

NotAllowedThenDone ==
    /\ pc = "returned" /\ result.text = "final"
    /\ \E i \in 1..Len(dispatch_log) : dispatch_log[i].name = "delete_everything"

\* C9: a backend failure becomes the ToolResult of its ToolUse, the run does
\* not raise because of it, and a model call follows the turn
BackendFailureContained ==
    /\ \A i \in 1..Len(dispatch_log) :
          LET e == dispatch_log[i] IN
          e.status \in AllFailures =>
              /\ e.text.kind = "dict"
              /\ e.text.what \in {"request_failed", "exec_failed", "chart_failed"}
              /\ ResultRecorded(e)
              /\ (pc \in {"returned", "raised"} \/ iteration > e.at => Len(call_log) > e.at)
    /\ RaisedByModelOnly

BackendFailedThenDone ==
    /\ pc = "returned" /\ result.text = "summary"
    /\ \E i \in 1..Len(dispatch_log) : dispatch_log[i].status = "request_error"
    /\ \E i \in 1..Len(dispatch_log) : dispatch_log[i].status = "raise"

\* the dispatches of this run that produced a chart, in order
Produced ==
    LET made == SelectSeq(dispatch_log,
                          LAMBDA e : e.name = "plot_graph" /\ e.status = "chart")
    IN  [i \in 1..Len(made) |-> made[i].id]

\* C10: the charts are the artifacts the dispatches of this run produced, one
\* per producing dispatch and in that order, also in the returned tuple
ArtifactsInOrder ==
    /\ charts = Produced
    /\ (pc = "returned" => result.charts = Produced)

ThreeArtifacts ==
    /\ pc = "returned" /\ result.text \in {"summary", "fallback"}
    /\ Len(result.charts) = 3
    /\ \E i \in 1..Len(dispatch_log) : dispatch_log[i].status = "none"

\* the text compaction was given, and the text it gave back
TextIn == fn_in.messages[1].blocks[1].content
TextOut == fn_out[1].blocks[1].content

\* C13: the compacted string is at most MAX_HISTORY_RESULT_CHARS plus a fixed
\* annotation long: the records note and the count for a list, the ellipsis
\* for an object, the compressed note for any other text; a string within
\* the limit is returned as it is
CompactionBound ==
    fn_pc \in {"compacted", "compacted_twice"} =>
        /\ Len(fn_out) = 1 /\ Len(fn_out[1].blocks) = 1
        /\ TextOut.len <= MAX_HISTORY_RESULT_CHARS + RecordsMarkLen + Digits(1000)
        /\ (fn_pc = "compacted" /\ TextIn.len > MAX_HISTORY_RESULT_CHARS =>
              /\ (TextIn.kind = "list" =>
                    TextOut.len <= MAX_HISTORY_RESULT_CHARS + RecordsMarkLen + Digits(TextIn.n))
              /\ (TextIn.kind = "dict" =>
                    TextOut.len <= MAX_HISTORY_RESULT_CHARS + EllipsisLen)
              /\ (TextIn.kind \in {"raw", "scalar"} =>
                    TextOut.len = MAX_HISTORY_RESULT_CHARS + CompressedMarkLen))
        /\ (fn_pc = "compacted" /\ TextIn.len <= MAX_HISTORY_RESULT_CHARS => TextOut = TextIn)

\* a list whose three-record sample is itself over the limit was compacted
SampleCut ==
    /\ fn_pc = "compacted"
    /\ TextIn.kind = "list" /\ TextIn.n >= 3
    /\ ListLen(3, TextIn.item) > MAX_HISTORY_RESULT_CHARS
    /\ TextOut.len = MAX_HISTORY_RESULT_CHARS + RecordsMarkLen + Digits(TextIn.n)

\* C14 as stated: every stored window holds at most max_messages messages
\* and its estimated size is at most max_chars
WindowCeilings ==
    \A u \in Users :
        /\ Len(agent_conversations[u]) <= DefaultMaxMessages
        /\ _estimate_chars(agent_conversations[u]) <= DefaultMaxChars

\* C14: every stored window holds at most max_messages messages, and its
\* estimated size is at most max_chars when it holds more than 2 messages
WindowCeilingsAboveTwo ==
    \A u \in Users :
        /\ Len(agent_conversations[u]) <= DefaultMaxMessages
        /\ (Len(agent_conversations[u]) > 2 =>
                _estimate_chars(agent_conversations[u]) <= DefaultMaxChars)

\* a run that started from a stored window of 2 messages over the budget
\* returns a window of more than 2 messages that the budget has cut
WindowCutToBudget ==
    /\ pc = "returned"
    /\ Len(agent_conversations[user]) = 2
    /\ _estimate_chars(agent_conversations[user]) > DefaultMaxChars
    /\ _estimate_chars(_compress_history_results(messages)) > DefaultMaxChars
    /\ Len(result.history) > 2
    /\ Len(result.history) < Len(messages)
    /\ _estimate_chars(result.history) <= DefaultMaxChars

RECURSIVE MaxBlocksSeen(_)
MaxBlocksSeen(msgs) ==
    IF msgs = <<>> THEN 0
    ELSE LET rest == MaxBlocksSeen(Tail(msgs))
         IN  IF Len(Head(msgs).blocks) > rest THEN Len(Head(msgs).blocks) ELSE rest

\* the tool_result blocks of msgs that answer the tool_use block id
ResultsFor(msgs, id) ==
    {msgs[i].blocks[j].content :
        <<i, j>> \in {<<i, j>> \in (1..Len(msgs)) \X (1..MaxBlocksSeen(msgs)) :
                        /\ j <= Len(msgs[i].blocks)
                        /\ msgs[i].blocks[j].type = "tool_result"
                        /\ msgs[i].blocks[j].id = id}}

\* a model call was issued after the tool-use turn of dispatch e
CalledAfter(e) == iteration > e.at \/ plain_calls = 1

\* C15: the tool_result the model receives on the calls of the run that
\* follow a dispatch is the text execute_tool returned, and so is the one in
\* the run's messages; the compacted text is only in the history the run
\* returns
LiveTurnUncompacted ==
    \A k \in 1..Len(dispatch_log) :
        LET e == dispatch_log[k] IN
        /\ (CalledAfter(e) => ResultsFor(sent, e.id) = {e.text})
        /\ (pc \in {"loop", "returned"} => ResultsFor(messages, e.id) = {e.text})
        /\ (pc = "returned" =>
                ResultsFor(result.history, e.id) \subseteq {_compress_tool_result(e.text)})

\* a tool result over the compaction limit was sent in full on the next
\* call, and the history the run returns holds it compacted
LargeResultSentInFull ==
    /\ pc = "returned"
    /\ \E k \in 1..Len(dispatch_log) :
          LET e == dispatch_log[k] IN
          /\ e.text.len > MAX_HISTORY_RESULT_CHARS
          /\ ResultsFor(sent, e.id) = {e.text}
          /\ ResultsFor(result.history, e.id) = {_compress_tool_result(e.text)}
          /\ _compress_tool_result(e.text) # e.text

\* the run returned from inside the while loop
DonePath == pc = "returned" /\ plain_calls = 0

\* the length of the text blocks of the last reply, taken together
ReplyText ==
    SumSeq([i \in 1..Len(response) |->
        IF response[i].type = "text" THEN response[i].content.len ELSE 0])

\* C17 as stated: on the DONE path the result is final_text and the
\* assistant message appended last contains final_text
DoneReturnsFinalText ==
    DonePath =>
        /\ result.text = "final" /\ result.len = ReplyText
        /\ Last(messages) = StrMsg("assistant", ReplyText)

\* C17: on the DONE path the assistant message appended last, which is also
\* the last one of the returned history, contains final_text; the result is
\* final_text when it is not empty and "No response generated." when it is
DoneReturnsFinalTextOrNotice ==
    DonePath =>
        /\ Last(messages) = StrMsg("assistant", ReplyText)
        /\ Last(result.history) = StrMsg("assistant", ReplyText)
        /\ (ReplyText > 0 => result.text = "final" /\ result.len = ReplyText)
        /\ (ReplyText = 0 => result.text = "no_response" /\ result.len = NoResponseLen)

\* a reply of two text blocks ended a run that had made a tool-use turn
TwoTextBlocksDone ==
    /\ DonePath /\ tool_calls = 2
    /\ Len(response) = 2 /\ response[1].type = "text" /\ response[2].type = "text"
    /\ result.len = response[1].content.len + response[2].content.len

\* the step that takes a run out of the exhausted while loop
ExhaustedStep == pc = "loop" /\ iteration >= max_iterations /\ pc' = "returned"

\* what every such step does: one call without tools, sent the messages
\* followed by one request to summarize
OneSummaryCall ==
    /\ plain_calls = 0 /\ plain_calls' = 1
    /\ tool_calls' = tool_calls
    /\ call_log' = Append(call_log, Last(call_log'))
    /\ sent' = Append(messages, StrMsg("user", SummarizePromptLen))
    /\ SubSeq(messages', 1, Len(sent')) = sent'
    /\ result'.charts = charts

\* C18 as stated: the text of the summarization call is the result
SummaryIsResult ==
    [][ExhaustedStep /\ Last(call_log') = "end" =>
          /\ OneSummaryCall
          /\ messages' = Append(sent', StrMsg("assistant", ReplyText'))
          /\ result'.text = "summary" /\ result'.len = ReplyText']_vars

\* C18: on the exhausted path one request to summarize is appended and one
\* call without tools is made; when it answers with text, that text is
\* appended as the assistant message and is the result; when it answers
\* without text nothing more is appended and the result is the fallback
SummaryOrFallbackIsResult ==
    [][ExhaustedStep /\ Last(call_log') = "end" =>
          /\ OneSummaryCall
          /\ IF ReplyText' > 0
             THEN /\ messages' = Append(sent', StrMsg("assistant", ReplyText'))
                  /\ result'.text = "summary" /\ result'.len = ReplyText'
             ELSE /\ messages' = sent'
                  /\ result'.text = "fallback" /\ result'.len = FallbackLen]_vars

\* max_iterations = 2, two tool_use replies without a chart, then a summary
PartialSummary ==
    /\ pc = "returned" /\ max_iterations = 2
    /\ call_log = <<"tool_use", "tool_use", "end">>
    /\ plain_calls = 1
    /\ result.text = "summary" /\ result.len = ReplyText /\ ReplyText > 0
    /\ result.charts = <<>>

IsToolUse(block) == block.type = "tool_use"
DispatchedNow(e) == e.at = iteration
Ids(blocks) == [i \in 1..Len(blocks) |-> blocks[i].id]

\* the ids of the tool_use blocks of the reply that the for loop has passed
PassedToolUses == Ids(SelectSeq(SubSeq(response, 1, idx - 1), IsToolUse))

\* while a turn is processed, the dispatches made and the results collected
\* are those of the tool_use blocks passed so far, in the order of the reply
DispatchedInOrder ==
    /\ Ids(SelectSeq(dispatch_log, DispatchedNow)) = PassedToolUses
    /\ Ids(tool_results) = PassedToolUses
    /\ \A i \in 1..Len(tool_results) : tool_results[i].type = "tool_result"

\* C19: while the tool_use blocks of a reply are processed no model call is
\* made and each step dispatches at most one block, in the order of the
\* reply; the turn then appends exactly two messages, the assistant message
\* as received and a user message with one tool_result per tool_use block,
\* in the same order and with the same ids
TurnAppendsPairs ==
    [][/\ (pc = "dispatch" =>
            /\ call_log' = call_log /\ sent' = sent
            /\ tool_calls' = tool_calls /\ plain_calls' = plain_calls
            /\ Len(dispatch_log') <= Len(dispatch_log) + 1)
       /\ (pc' = "dispatch" => DispatchedInOrder')
       /\ (pc = "dispatch" /\ pc' = "loop" =>
            /\ Len(messages') = Len(messages) + 2
            /\ SubSeq(messages', 1, Len(messages)) = messages
            /\ messages'[Len(messages) + 1] = ListMsg("assistant", response)
            /\ messages'[Len(messages) + 2].role = "user"
            /\ ~messages'[Len(messages) + 2].str
            /\ messages'[Len(messages) + 2].blocks = tool_results
            /\ Ids(tool_results) = Ids(SelectSeq(response, IsToolUse)))]_vars

\* a turn whose reply was a text block and two tool_use blocks has been
\* appended
TurnOfTwoAppended ==
    /\ pc = "loop" /\ Len(messages) >= 3
    /\ Len(messages[Len(messages) - 1].blocks) = 3
    /\ messages[Len(messages) - 1].role = "assistant"
    /\ Len(Last(messages).blocks) = 2
    /\ Ids(Last(messages).blocks) = Ids(SelectSeq(messages[Len(messages) - 1].blocks, IsToolUse))

\* a step in which a handler called check_agent_rate_limit for user_id; ret
\* is what the call returned
CheckStep(user_id) ==
    /\ pc = "idle" /\ ~pending.on
    /\ ret'.op = "check" /\ ret'.user = user_id

\* the stored count of a user is the number of records made today
UsageMatches ==
    \A u \in Users :
        IF agent_usage[u].date = today
        THEN agent_usage[u].count = recorded[u]
        ELSE recorded[u] = 0

\* what a check does to the entry of an earlier day, and what it answers
\* once daily_limit records were made today
RolloverAndRefusal(u) ==
    LET daily_limit == get_agent_limits(agent_user_limits, u).daily_limit IN
    /\ (recorded[u] >= daily_limit => ~ret'.ok /\ ret'.n = 0)
    /\ (agent_usage[u].date # today =>
            /\ agent_usage'[u].date = today
            /\ agent_usage'[u].count = recorded'[u]
            /\ recorded'[u] \in {0, 1})

\* C11 as stated: the first check of a day returns (true, daily_limit)
QuotaRollover ==
    [][/\ UsageMatches'
       /\ \A u \in Users : CheckStep(u) =>
            /\ RolloverAndRefusal(u)
            /\ (agent_usage[u].date # today =>
                    /\ ret'.ok
                    /\ ret'.n = get_agent_limits(agent_user_limits, u).daily_limit)]_vars

\* C11: a check made after daily_limit records of the day returns
\* (false, 0); the first check of a day sets the stored count to 0 before
\* anything is recorded, and returns (true, daily_limit) when daily_limit
\* is positive and (false, 0) when it is not
QuotaRolloverPositive ==
    [][/\ UsageMatches'
       /\ \A u \in Users : CheckStep(u) =>
            LET daily_limit == get_agent_limits(agent_user_limits, u).daily_limit IN
            /\ RolloverAndRefusal(u)
            /\ (agent_usage[u].date # today /\ daily_limit > 0 =>
                    ret'.ok /\ ret'.n = daily_limit)
            /\ (agent_usage[u].date # today /\ daily_limit <= 0 =>
                    ~ret'.ok /\ ret'.n = 0)]_vars

\* the day after a user used up a daily limit of MaxDaily, a check has
\* reset the count and returned (true, MaxDaily)
RolledOver ==
    /\ pc = "idle" /\ today = 2 /\ runs = MaxDaily
    /\ get_agent_limits(agent_user_limits, "u1").daily_limit = MaxDaily
    /\ agent_usage["u1"] = [date |-> 2, count |-> 0]
    /\ ret = [op |-> "check", user |-> "u1", key |-> "", ok |-> TRUE, n |-> MaxDaily, limit |-> 0]

\* a step of "/agent limit"; ret holds its arguments and what
\* set_agent_limit returned
SetStep == pc = "idle" /\ ret'.op = "set_limit"

OtherKey(key) == IF key = "daily_limit" THEN "max_iterations" ELSE "daily_limit"

\* C20: set_limit with a key other than daily_limit or max_iterations
\* returns False and changes no limit; with one of the two it changes the
\* effective limit of that key of that user to the value and nothing else;
\* a user without override has the default limits; the history limit is
\* the default for everyone
LimitOverrides ==
    [][/\ \A u \in Users :
            /\ get_agent_limits(agent_user_limits, u).history_limit = AGENT_DEFAULTS.history_limit
            /\ (agent_user_limits[u].keys = {} =>
                    get_agent_limits(agent_user_limits, u) = AGENT_DEFAULTS)
       /\ (~SetStep => agent_user_limits' = agent_user_limits)
       /\ (SetStep =>
            LET before == get_agent_limits(agent_user_limits, ret'.user)
                after == get_agent_limits(agent_user_limits', ret'.user)
            IN  /\ ret'.ok = (ret'.key \in {"daily_limit", "max_iterations"})
                /\ (~ret'.ok => agent_user_limits' = agent_user_limits)
                /\ (ret'.ok =>
                        /\ after[ret'.key] = ret'.n
                        /\ after[OtherKey(ret'.key)] = before[OtherKey(ret'.key)]
                        /\ agent_user_limits'[ret'.user].keys =
                               agent_user_limits[ret'.user].keys \cup {ret'.key}
                        /\ \A v \in Users \ {ret'.user} :
                               agent_user_limits'[v] = agent_user_limits[v]))]_vars

\* the daily limit of u1 has just been set while u1 keeps the default
\* max_iterations and u2 keeps an override of its own
DailyLimitSetForOne ==
    /\ ret.op = "set_limit" /\ ret.ok /\ ret.user = "u1" /\ ret.key = "daily_limit"
    /\ agent_user_limits["u1"].keys = {"daily_limit"}
    /\ get_agent_limits(agent_user_limits, "u1").daily_limit = ret.n
    /\ get_agent_limits(agent_user_limits, "u1").max_iterations = AGENT_DEFAULTS.max_iterations
    /\ agent_user_limits["u2"].keys = {"max_iterations"}

\* the step records one request of user_id on today's count
Charged(user_id) ==
    /\ agent_usage'[user_id].date = today
    /\ agent_usage'[user_id].count =
          (IF agent_usage[user_id].date = today THEN agent_usage[user_id].count ELSE 0) + 1
    /\ recorded'[user_id] = recorded[user_id] + 1

\* C12: the step that enters run_agent has recorded the request, in the
\* same step for the dashboard and in the step that suspended the request
\* for the bot; no step of the run changes the usage afterwards, the one
\* that handles its failure included
ChargedAtAdmission ==
    [][/\ (pc = "idle" /\ pc' = "loop" =>
            \/ Charged(user')
            \/ /\ pending.on /\ ~pending'.on
               /\ user' = pending.user /\ agent_usage' = agent_usage)
       /\ (~pending.on /\ pending'.on => pc' = "idle" /\ Charged(pending'.user))
       /\ (pc # "idle" => agent_usage' = agent_usage /\ recorded' = recorded)
       /\ (pc = "raised" =>
            /\ pc' = "idle" /\ ret'.op = "error"
            /\ agent_usage'[user] = agent_usage[user]
            /\ agent_usage[user].count >= 1)]_vars

\* the only run so far failed: nothing is stored for its user and one
\* request is counted
FailedRunCharged ==
    /\ pc = "idle" /\ runs = 1
    /\ ret.op = "error" /\ ret.user = "u1"
    /\ agent_conversations["u1"] = <<>>
    /\ agent_usage["u1"] = [date |-> today, count |-> 1]

\* the user a step works for: the user of the run in flight or entered, or
\* the user of the handler that returned ("" for the clock)
ActorOfStep ==
    IF pc # "idle" THEN user
    ELSE IF pc' # "idle" THEN user'
    ELSE ret'.user

\* C16: a step made for one user, be it a check, a record, a step of a run,
\* a write-back, a clear or a change of limits, leaves the stored
\* conversation, the usage and the limits of every other user as they
\* were, and a run starts from the stored conversation of its own user
UsersIndependent ==
    [][/\ \A v \in Users \ {ActorOfStep} :
            /\ agent_conversations'[v] = agent_conversations[v]
            /\ agent_usage'[v] = agent_usage[v]
            /\ agent_user_limits'[v] = agent_user_limits[v]
       /\ (pc = "idle" /\ pc' = "loop" =>
            \E p \in env.prompts :
                messages' = StartMessages(agent_conversations[user'], p))]_vars

\* while a request of u1 is suspended at its "Thinking..." reply, a run of
\* u2 has been written back; u1 has a conversation of an earlier run
InterleavedUsers ==
    /\ pc = "idle"
    /\ pending.on /\ pending.user = "u1"
    /\ ret.op = "reply" /\ ret.user = "u2"
    /\ agent_conversations["u1"] # <<>>
    /\ agent_conversations["u2"] # <<>>
    /\ agent_usage["u1"].count = 2 /\ agent_usage["u2"].count = 1

\* an assistant message whose content holds a tool_use block, whether a
\* dict or the object the model client returned
HoldsToolUse(msg) ==
    /\ msg.role = "assistant" /\ ~msg.str
    /\ \E i \in 1..Len(msg.blocks) : msg.blocks[i].type = "tool_use"

\* C21: the message list a run starts from, which is the repair of the
\* stored history followed by the prompt, does not start with an assistant
\* message that holds a tool_use block
RepairDropsStoredToolUse ==
    pc \in {"loop", "dispatch"} => ~HoldsToolUse(messages[1])

\* C22: every message list sent to the model, in any run after any earlier
\* runs and clears, starts with a message of role user
SentStartsWithUser ==
    sent # <<>> => sent[1].role = "user"

\* C23: after every run that returns, the last message of the history handed
\* back for storage is an assistant text message
HistoryEndsWithAssistantText ==
    pc = "returned" /\ result.history # <<>> =>
        /\ Last(result.history).role = "assistant"
        /\ Last(result.history).str

\* the count a check of the user works with: the stored count of today, and
\* 0 when the entry is missing or of an earlier day
CountToday(u) == IF agent_usage[u].date = today THEN agent_usage[u].count ELSE 0

\* C24: a check answers allowed exactly when the count is below daily_limit,
\* then with remaining = daily_limit - count > 0, and answers (false, 0)
\* otherwise, whatever value the limit was set to; the remaining quota it
\* reports is never negative
CheckConsistent ==
    [][\A u \in Users : CheckStep(u) =>
        LET daily_limit == get_agent_limits(agent_user_limits, u).daily_limit
            count == CountToday(u)
        IN  /\ ret'.ok <=> count < daily_limit
            /\ ret'.ok => ret'.n = daily_limit - count /\ ret'.n > 0
            /\ ~ret'.ok => ret'.n = 0
            /\ ret'.n >= 0]_vars

\* a check was refused with remaining 0 after the limit was set below the
\* count already recorded today
CheckAfterLimitLowered ==
    \E u \in Users :
        /\ ret = [op |-> "check", user |-> u, key |-> "", ok |-> FALSE, n |-> 0, limit |-> 0]
        /\ recorded[u] = 2 /\ agent_usage[u] = [date |-> today, count |-> 2]
        /\ get_agent_limits(agent_user_limits, u).daily_limit \in {-1, 0, 1}

\* C25: a request of a user is recorded only when the count of today is
\* below the daily limit, in the same step as its check, and while the
\* limit stays as it is the stored count of the day never exceeds it, also
\* when a request of the same user is suspended in between
AdmissionsWithinLimit ==
    [][\A u \in Users :
        LET daily_limit == get_agent_limits(agent_user_limits, u).daily_limit IN
        /\ recorded'[u] = recorded[u] + 1 =>
                /\ CountToday(u) < daily_limit
                /\ agent_usage'[u] = [date |-> today, count |-> CountToday(u) + 1]
        /\ (/\ CountToday(u) <= daily_limit
            /\ get_agent_limits(agent_user_limits', u).daily_limit = daily_limit
            /\ today' = today)
           => CountToday(u)' <= daily_limit]_vars

\* while a bot request of the user is suspended after its record, the web
\* chat has refused the same user: the limit is used up
RefusedWhileSuspended ==
    /\ pending.on /\ pending.user = "u1"
    /\ ret = [op |-> "check", user |-> "u1", key |-> "", ok |-> FALSE, n |-> 0, limit |-> 0]
    /\ agent_usage["u1"] = [date |-> today, count |-> MaxDaily]
    /\ get_agent_limits(agent_user_limits, "u1").daily_limit = MaxDaily
    /\ recorded["u1"] = MaxDaily

\* what run_agent makes of the history a request reads from the store
ReadHistory(u) ==
    IF agent_conversations[u] # <<>> THEN _clean_orphaned_messages(agent_conversations[u])
    ELSE <<>>

\* C26: from the read of the stored history to the write-back of a request
\* nothing else writes the store, and the history a request writes back is
\* the trimmed run of the repaired history that is stored at that moment,
\* the one the previous write-back of the user left, followed by its prompt
NoLostUpdate ==
    [][/\ pc' # "idle" => agent_conversations' = store_before'
       /\ pc = "returned" /\ pc' = "idle" =>
            LET base == ReadHistory(user) IN
            /\ Len(messages) > Len(base) + 1
            /\ SubSeq(messages, 1, Len(base)) = base
            /\ messages[Len(base) + 1].role = "user" /\ messages[Len(base) + 1].str
            /\ agent_conversations' =
                   [agent_conversations EXCEPT
                       ![user] = _trim_history(messages, DefaultMaxMessages, DefaultMaxChars)]]_vars

\* a bot request that was suspended while a web chat request of the same
\* user ran and wrote its history back has returned: its history continues
\* the two messages the web chat request stored
OverlappedRunReturned ==
    /\ pc = "returned" /\ ~pending.on
    /\ ret = [op |-> "reply", user |-> user, key |-> "", ok |-> TRUE, n |-> 0, limit |-> 0]
    /\ Len(agent_conversations[user]) = 2
    /\ Len(result.history) = 4
    /\ SubSeq(result.history, 1, 2) = agent_conversations[user]

\* a step in which the usage of a user was read for display
UsageStep == pc = "idle" /\ pc' = "idle" /\ ret'.op = "usage"

\* C27: reading the usage never changes the quota store, also when the
\* stored date is not today; it returns the number of requests recorded
\* today, 0 when the entry is missing or of an earlier day, and the
\* effective daily limit of the user
UsageReadOnly ==
    [][UsageStep =>
        /\ agent_usage' = agent_usage
        /\ agent_user_limits' = agent_user_limits
        /\ ret'.n = recorded[ret'.user]
        /\ ret'.n = CountToday(ret'.user)
        /\ ret'.limit = get_agent_limits(agent_user_limits, ret'.user).daily_limit]_vars

\* the usage was read on the day after a request was recorded: the answer
\* is 0 of the limit set for the user, and the entry of yesterday is still
\* stored
UsageOfEarlierDay ==
    /\ ret = [op |-> "usage", user |-> "u1", key |-> "", ok |-> TRUE, n |-> 0,
              limit |-> MaxDaily]
    /\ today = 2
    /\ agent_usage["u1"] = [date |-> 1, count |-> 1]

\* a step of "/agent clear" or of POST /api/chat/clear
ClearStep == pc = "idle" /\ pc' = "idle" /\ ret'.op = "clear"

\* C28: a clear removes the conversation of its user and leaves the quota
\* counts, the limits and the conversations of the other users as they
\* are, whether or not the quota is used up; a run that finds no stored
\* conversation sends the model a list that holds its prompt only
ClearOnlyWindow ==
    [][/\ ClearStep =>
            /\ agent_conversations' = [agent_conversations EXCEPT ![ret'.user] = <<>>]
            /\ agent_usage' = agent_usage
            /\ agent_user_limits' = agent_user_limits
            /\ today' = today /\ pending' = pending /\ recorded' = recorded
       /\ pc = "loop" /\ iteration = 0 /\ agent_conversations[user] = <<>> /\ sent' # sent =>
            /\ Len(sent') = 1
            /\ sent'[1].role = "user" /\ sent'[1].str]_vars

\* a user whose quota of the day is used up has cleared their conversation;
\* the conversation of the other user is still stored
ClearedWhenExhausted ==
    /\ ret = [op |-> "clear", user |-> "u1", key |-> "", ok |-> TRUE, n |-> 0, limit |-> 0]
    /\ agent_usage["u1"] = [date |-> today, count |-> MaxDaily]
    /\ get_agent_limits(agent_user_limits, "u1").daily_limit = MaxDaily
    /\ agent_conversations["u1"] = <<>>
    /\ agent_conversations["u2"] # <<>>

\* t is what is left of s when messages are taken from its front
IsSuffix(t, s) ==
    /\ Len(t) <= Len(s)
    /\ t = SubSeq(s, Len(s) - Len(t) + 1, Len(s))

\* C29: the result of _trim_history is a contiguous suffix of the compacted
\* input, and when the last message of the input is a plain text message
\* the result ends with that message, so it is not empty
TrimIsSuffix ==
    fn_pc = "trimmed" =>
        /\ IsSuffix(fn_out, _compress_history_results(fn_in.messages))
        /\ (fn_in.messages # <<>> /\ Last(fn_in.messages).str =>
                fn_out # <<>> /\ Last(fn_out) = Last(fn_in.messages))

\* a history of MaxLen messages was cut by count and by the repair of the
\* cut down to its last message, a plain text message
TrimmedToLastText ==
    /\ fn_pc = "trimmed"
    /\ Len(fn_in.messages) = MaxLen /\ fn_in.max_messages = MaxLen - 1
    /\ fn_in.max_chars = DefaultMaxChars
    /\ Last(fn_in.messages).str
    /\ fn_out = <<Last(fn_in.messages)>>

\* C30: compacting a compacted tool result again leaves it unchanged
CompactionStable ==
    fn_pc = "compacted_twice" => fn_out = fn_prev

====
